---- MODULE Spec2Model ----
(***************************************************************************)
(* A model of etl_sales_pipeline.py: the batch job main() that loads the   *)
(* raw sales CSV files, cleans and transforms them and writes the cleaned  *)
(* dataset as CSV and Parquet.                                             *)
(*                                                                         *)
(* A DataFrame is a record [columns, rows]: columns is the sequence of the *)
(* column labels, rows the sequence of [idx, c] where idx is the row's     *)
(* pandas index label and c maps every column label to the row's cell.     *)
(* DataFrames are Python objects: heap maps a reference to the frame it    *)
(* holds, and raw_df / df are references, so that an in-place change of a  *)
(* frame is seen through every reference to it.                            *)
(*                                                                         *)
(* Numbers are exact rationals <<n, d>> (d > 0); d = 0 encodes the IEEE    *)
(* specials: <<0, 0>> is NaN / pd.NA, <<1, 0>> is inf, <<-1, 0>> is -inf.  *)
(* The cells of the raw files are finite decimals whose products and       *)
(* differences a float64 represents exactly.                               *)
(***************************************************************************)
EXTENDS Integers, Sequences, FiniteSets, TLC

VARIABLES
    disk,        \* data/raw: file name -> the frame pd.read_csv reads from it
    clock,       \* the wall clock: the current year
    dirs,        \* TRUE once ensure_dirs has created the folders
    pc,          \* position of main()
    start_time,  \* main: start_time (the year of datetime.now())
    heap,        \* reference -> DataFrame object
    raw_df,      \* main: raw_df, a reference (0: unbound)
    df,          \* clean_and_transform: df, a reference (0: unbound)
    clean_df,    \* main: clean_df, <<>> or <<frame>>
    out_csv,     \* data/processed/sales_clean.csv: <<>> or <<content>>
    out_parquet, \* data/processed/sales_clean.parquet: <<>> or <<content>>
    written,     \* the output files written by the current run
    error,       \* the exception that ended the run: <<>> or <<exception>>
    warnings,    \* the [WARN] lines the current run printed
    run,         \* number of the current run of the job
    prev_clean   \* clean_df of the last run that ended normally: <<>> or <<frame>>

vars == <<disk, clock, dirs, pc, start_time, heap, raw_df, df, clean_df, out_csv,
          out_parquet, written, error, warnings, run, prev_clean>>

-----------------------------------------------------------------------------
(* Bounds *)

\* rows in data/raw, over all files
MaxRows == 2
\* years the wall clock may advance past the first one
MaxClock == 1
\* runs of the job on the same raw files
MaxRuns == 2

Years == 2025 .. (2025 + MaxClock)

-----------------------------------------------------------------------------
(* Sequences *)

Range(s) == {s[i] : i \in DOMAIN s}

RECURSIVE SelectIdx(_, _)
\* the subsequence of s at the positions in keep, in order
SelectIdx(s, keep) ==
    IF s = <<>> THEN <<>>
    ELSE LET n == Len(s)
             front == SelectIdx(SubSeq(s, 1, n - 1), keep)
         IN IF n \in keep THEN Append(front, s[n]) ELSE front

RECURSIVE Flatten(_)
Flatten(ss) == IF ss = <<>> THEN <<>> ELSE Head(ss) \o Flatten(Tail(ss))

Perms(S) == {p \in [1 .. Cardinality(S) -> S] : Range(p) = S}

-----------------------------------------------------------------------------
(* Numbers *)

Abs(x) == IF x < 0 THEN -x ELSE x

RECURSIVE GCD(_, _)
GCD(a, b) == IF b = 0 THEN a ELSE GCD(b, a % b)

Sign(x) == IF x > 0 THEN 1 ELSE IF x < 0 THEN -1 ELSE 0

NaN == <<0, 0>>

\* the number n/d in lowest terms; d = 0 gives inf, -inf or NaN
Rat(n, d) ==
    IF d = 0 THEN <<Sign(n), 0>>
    ELSE LET g == GCD(Abs(n), Abs(d))
         IN <<(Sign(d) * n) \div g, Abs(d) \div g>>

IsNull(x) == x = NaN

\* float multiplication, subtraction and division (finite operands, or NaN)
Mul(x, y) == IF IsNull(x) \/ IsNull(y) THEN NaN ELSE Rat(x[1] * y[1], x[2] * y[2])
Sub(x, y) == IF IsNull(x) \/ IsNull(y) THEN NaN
             ELSE Rat(x[1] * y[2] - y[1] * x[2], x[2] * y[2])
Div(x, y) == IF IsNull(x) \/ IsNull(y) THEN NaN ELSE Rat(x[1] * y[2], x[2] * y[1])

Gt0(x) == ~IsNull(x) /\ x[1] > 0
Ge0(x) == ~IsNull(x) /\ x[1] >= 0

-----------------------------------------------------------------------------
(* Strings: the text conversions of the code, tabulated over the strings   *)
(* the raw files of the model hold.  A string a table does not list is     *)
(* left as it is by the conversion.                                        *)

\* str.strip()
StripTable ==
    (" Order_ID" :> "Order_ID") @@ ("Order_Date " :> "Order_Date") @@
    ("customer_id " :> "customer_id") @@ (" Sub_Category " :> "Sub_Category") @@
    (" profit" :> "profit") @@ (" Notes " :> "Notes") @@
    (" east " :> "east") @@ ("india " :> "india") @@ (" Chairs" :> "Chairs")

strip(s) == IF s \in DOMAIN StripTable THEN StripTable[s] ELSE s

\* str.lower()
LowerTable ==
    ("Order_ID" :> "order_id") @@ ("Order_Date" :> "order_date") @@
    ("REGION" :> "region") @@ ("Country" :> "country") @@
    ("Product_ID" :> "product_id") @@ ("Category" :> "category") @@
    ("Sub_Category" :> "sub_category") @@ ("Quantity" :> "quantity") @@
    ("UNIT_PRICE" :> "unit_price") @@ ("Discount" :> "discount") @@
    ("Notes" :> "notes") @@ ("OrderDate" :> "orderdate")

lower(s) == IF s \in DOMAIN LowerTable THEN LowerTable[s] ELSE s

\* str.title()
TitleTable ==
    ("east" :> "East") @@ ("india" :> "India") @@
    ("office supplies" :> "Office Supplies") @@ ("paper" :> "Paper") @@
    ("WEST" :> "West") @@ ("USA" :> "Usa") @@ ("north" :> "North") @@
    ("peru" :> "Peru") @@ ("TOYS" :> "Toys") @@ ("games" :> "Games")

title(s) == IF s \in DOMAIN TitleTable THEN TitleTable[s] ELSE s

\* pd.to_numeric(errors="coerce"): the number a string denotes; a string that
\* denotes none is absent from the table
NumTable ==
    ("-5" :> Rat(-5, 1)) @@ ("-2" :> Rat(-2, 1)) @@ ("-1" :> Rat(-1, 1)) @@
    ("0" :> Rat(0, 1)) @@ ("0.5" :> Rat(1, 2)) @@ ("1" :> Rat(1, 1)) @@
    ("1.5" :> Rat(3, 2)) @@ ("2" :> Rat(2, 1)) @@ ("3" :> Rat(3, 1)) @@
    ("4" :> Rat(4, 1)) @@ ("5" :> Rat(5, 1))

to_numeric(s) == IF s \in DOMAIN NumTable THEN NumTable[s] ELSE NaN

\* dateutil.parser.parse: <<year, month, day>> read from the string; year 0
\* marks a string that names no year, which parse() takes from its default,
\* the current date.  A string parse() rejects is absent from the table.
DateTable ==
    ("2024-04-15" :> <<2024, 4, 15>>) @@ ("2023-12-01" :> <<2023, 12, 1>>) @@
    ("Apr 15" :> <<0, 4, 15>>)

NaT == <<0, 0, 0>>

\* parse_date_safe(x), called when the current year is today
parse_date_safe(x, today) ==
    IF x \in DOMAIN DateTable
    THEN LET t == DateTable[x]
         IN <<IF t[1] = 0 THEN today ELSE t[1], t[2], t[3]>>
    ELSE NaT

\* date.strftime("%b")
MonthAbbr ==
    <<"Jan", "Feb", "Mar", "Apr", "May", "Jun",
      "Jul", "Aug", "Sep", "Oct", "Nov", "Dec">>

-----------------------------------------------------------------------------
(* DataFrames *)

Frame(cols, rows) == [columns |-> cols, rows |-> rows]

\* df[col] = F(row) for every row; a new column is appended
Assign(f, col, F(_)) ==
    Frame(IF col \in Range(f.columns) THEN f.columns ELSE Append(f.columns, col),
          [i \in DOMAIN f.rows |->
              [idx |-> f.rows[i].idx,
               c   |-> (col :> F(f.rows[i].c)) @@ f.rows[i].c]])

\* df[mask]: the rows that satisfy P, in order, index labels kept
Filter(f, P(_)) ==
    Frame(f.columns, SelectIdx(f.rows, {i \in DOMAIN f.rows : P(f.rows[i].c)}))

\* df.columns = names: the columns are relabelled by position
SetColumns(f, names) ==
    Frame(names,
          [i \in DOMAIN f.rows |->
              [idx |-> f.rows[i].idx,
               c   |-> [n \in Range(names) |->
                          f.rows[i].c[f.columns[CHOOSE k \in DOMAIN names : names[k] = n]]]]])

\* df[cols]: the listed columns, in the listed order
Project(f, cols) ==
    Frame(cols,
          [i \in DOMAIN f.rows |->
              [idx |-> f.rows[i].idx, c |-> [n \in Range(cols) |-> f.rows[i].c[n]]]])

\* pd.concat(df_list, ignore_index=True) of frames with the same columns
Concat(df_list) ==
    LET rows == Flatten([k \in DOMAIN df_list |-> df_list[k].rows])
    IN Frame(IF df_list = <<>> THEN <<>> ELSE df_list[1].columns,
             [i \in DOMAIN rows |-> [idx |-> i, c |-> rows[i].c]])

-----------------------------------------------------------------------------
(* standardize_columns *)

required_cols ==
    <<"order_id", "order_date", "region", "country",
      "customer_id", "product_id", "category", "sub_category",
      "quantity", "unit_price", "discount", "profit">>

\* [c.strip().lower() for c in df.columns]
NormalizedColumns(cols) == [i \in DOMAIN cols |-> lower(strip(cols[i]))]

\* a variant that reports the first missing column only
MissingFirst(cols) ==
    SubSeq(SelectSeq(required_cols, LAMBDA c : c \notin Range(cols)), 1, 1)

\* missing = [c for c in required_cols if c not in df.columns]
Missing(cols) == SelectSeq(required_cols, LAMBDA c : c \notin Range(cols))

SchemaError(missing, present) ==
    [type |-> "ValueError", missing |-> missing, present |-> present]

-----------------------------------------------------------------------------
(* clean_and_transform, lines 75-128, stage by stage *)

\* df["order_date"] = df["order_date"].apply(parse_date_safe)
ParseDates(f, today) ==
    Assign(f, "order_date", LAMBDA c : parse_date_safe(c.order_date, today))

\* df.dropna(subset=["order_date"])
DropNullDates(f) == Filter(f, LAMBDA c : c.order_date # NaT)

numeric_cols == <<"quantity", "unit_price", "discount", "profit">>

RECURSIVE CoerceNumeric(_, _)
\* for col in numeric_cols: df[col] = pd.to_numeric(df[col], errors="coerce")
CoerceNumeric(f, cols) ==
    IF cols = <<>> THEN f
    ELSE CoerceNumeric(Assign(f, Head(cols), LAMBDA c : to_numeric(c[Head(cols)])),
                       Tail(cols))

\* a variant that drops on the two range-filtered columns only
DropNullQuantityPrice(f) ==
    Filter(f, LAMBDA c : \A col \in {"quantity", "unit_price"} : ~IsNull(c[col]))

\* df.dropna(subset=["quantity", "unit_price", "discount", "profit"])
DropNullNumbers(f) ==
    Filter(f, LAMBDA c : \A col \in {"quantity", "unit_price", "discount", "profit"} :
                             ~IsNull(c[col]))

\* a variant that keeps a quantity of zero
RangeFilterNonNegative(f) == Filter(f, LAMBDA c : Ge0(c.quantity) /\ Ge0(c.unit_price))

\* df[(df["quantity"] > 0) & (df["unit_price"] >= 0)]
RangeFilter(f) == Filter(f, LAMBDA c : Gt0(c.quantity) /\ Ge0(c.unit_price))

categorical_cols == <<"region", "country", "category", "sub_category">>

RECURSIVE CleanStrings(_, _)
\* for col in [...]: df[col] = df[col].astype(str).str.strip().str.title()
CleanStrings(f, cols) ==
    IF cols = <<>> THEN f
    ELSE CleanStrings(Assign(f, Head(cols), LAMBDA c : title(strip(c[Head(cols)]))),
                      Tail(cols))

\* a variant that leaves a zero in place
KeepZero(x) == x

\* Series.replace({0: pd.NA})
ReplaceZero(x) == IF x = Rat(0, 1) THEN NaN ELSE x

\* the KPI columns, lines 94-101
ComputeKPIs(f) ==
    LET f1 == Assign(f, "gross_sales", LAMBDA c : Mul(c.quantity, c.unit_price))
        f2 == Assign(f1, "discount_amount", LAMBDA c : Mul(c.gross_sales, c.discount))
        f3 == Assign(f2, "net_sales", LAMBDA c : Sub(c.gross_sales, c.discount_amount))
    IN Assign(f3, "margin_pct", LAMBDA c : Div(c.profit, ReplaceZero(c.net_sales)))

\* f"Q{((d.month - 1)//3) + 1}"
Quarter(d) == <<"Q", ((d[2] - 1) \div 3) + 1>>

\* the time dimensions, lines 104-107
AddTimeDimensions(f) ==
    LET f1 == Assign(f, "order_year", LAMBDA c : c.order_date[1])
        f2 == Assign(f1, "order_month", LAMBDA c : c.order_date[2])
        f3 == Assign(f2, "order_month_name", LAMBDA c : MonthAbbr[c.order_date[2]])
    IN Assign(f3, "order_quarter", LAMBDA c : Quarter(c.order_date))

\* the columns drop_duplicates compares
DupKey(c) == <<c.order_id, c.product_id>>

\* a variant that drops nothing
KeepDuplicates(f) == f

\* a variant that keeps the last row of every key (keep="last")
DropDuplicatesKeepLast(f) ==
    Frame(f.columns,
          SelectIdx(f.rows,
                    {i \in DOMAIN f.rows :
                        \A j \in (i + 1) .. Len(f.rows) :
                            DupKey(f.rows[j].c) # DupKey(f.rows[i].c)}))

\* df.drop_duplicates(subset=["order_id", "product_id"]): a row is dropped when
\* an earlier row of the frame has its key
DropDuplicates(f) ==
    Frame(f.columns,
          SelectIdx(f.rows,
                    {i \in DOMAIN f.rows :
                        \A j \in 1 .. (i - 1) : DupKey(f.rows[j].c) # DupKey(f.rows[i].c)}))

cols_order ==
    <<"order_id", "order_date", "order_year", "order_quarter",
      "order_month", "order_month_name",
      "region", "country", "customer_id",
      "product_id", "category", "sub_category",
      "quantity", "unit_price", "discount",
      "gross_sales", "discount_amount", "net_sales",
      "profit", "margin_pct", "source_file">>

\* cols_order = [c for c in cols_order if c in df.columns]; df = df[cols_order]
Reorder(f) == Project(f, SelectSeq(cols_order, LAMBDA c : c \in Range(f.columns)))

\* lines 75-128 on the standardized frame f, the current year being today
CleanRows(f, today) ==
    LET dated    == DropNullDates(ParseDates(f, today))
        numbered == DropNullNumbers(CoerceNumeric(dated, numeric_cols))
        ranged   == RangeFilter(numbered)
        cleaned  == CleanStrings(ranged, categorical_cols)
        enriched == AddTimeDimensions(ComputeKPIs(cleaned))
    IN Reorder(DropDuplicates(enriched))

-----------------------------------------------------------------------------
(* The raw files the model runs the job on *)

\* a data row of a raw file, by field
RawRow(oid, pid, date, qty, price, disc, profit, region, country, cust, cat, sub) ==
    [order_id |-> oid, product_id |-> pid, order_date |-> date,
     quantity |-> qty, unit_price |-> price, discount |-> disc, profit |-> profit,
     region |-> region, country |-> country, customer_id |-> cust,
     category |-> cat, sub_category |-> sub, notes |-> "memo"]

\* a valid row; the rows below change its cells
GoodRow(pid) ==
    RawRow("A", pid, "2024-04-15", "2", "3", "0", "4",
           " east ", "india ", "C1", "office supplies", "paper")

\* a valid row that differs from GoodRow in every cell but the key
OtherRow(pid) ==
    RawRow("A", pid, "2023-12-01", "3", "5", "0.5", "-2",
           "WEST", "USA", "C2", "Furniture", " Chairs")

\* a row every filter rejects, which differs from both in every cell but the key
BadRow(pid) ==
    RawRow("A", pid, "n/a", "-5", "-1", "x", "x",
           "north", "peru", "C3", "TOYS", "games")

\* a valid row whose date names no year
UndatedRow(pid) == [GoodRow(pid) EXCEPT !.order_date = "Apr 15"]

CellValues ==
    [order_date |-> {"2024-04-15", "Apr 15", "n/a"},
     quantity   |-> {"-5", "0", "2", "abc"},
     unit_price |-> {"-1", "0", "3"},
     discount   |-> {"0", "1", "1.5", "x"},
     profit     |-> {"0", "4", "x"}]

\* GoodRow with at most one cell changed
Variants(pid) ==
    {[GoodRow(pid) EXCEPT ![col] = v] : <<col, v>> \in
        UNION {{<<col, v>> : v \in CellValues[col]} : col \in DOMAIN CellValues}}

RichRows == Variants("P") \cup {OtherRow("P"), BadRow("P")}
                \cup {GoodRow("Q"), [GoodRow("Q") EXCEPT !.discount = "1.5"]}

FewRows == {GoodRow("P"), OtherRow("P"), BadRow("P"), UndatedRow("P")}

\* a header line: the column labels of a file and the field under each
LayoutPlain == [k \in DOMAIN required_cols |-> <<required_cols[k], required_cols[k]>>]

LayoutPadded ==
    << <<" Order_ID", "order_id">>, <<"Order_Date ", "order_date">>,
       <<"REGION", "region">>, <<"Country", "country">>,
       <<"customer_id ", "customer_id">>, <<"Product_ID", "product_id">>,
       <<"Category", "category">>, <<" Sub_Category ", "sub_category">>,
       <<"Quantity", "quantity">>, <<"UNIT_PRICE", "unit_price">>,
       <<"Discount", "discount">>, <<" profit", "profit">>,
       <<" Notes ", "notes">> >>

\* order_date renamed to orderdate
LayoutRenamed ==
    [k \in DOMAIN required_cols |->
        IF required_cols[k] = "order_date" THEN <<"OrderDate", "order_date">>
        ELSE <<required_cols[k], required_cols[k]>>]

\* region, quantity and profit absent
LayoutShort ==
    SelectSeq(LayoutPadded, LAMBDA h : h[2] \notin {"region", "quantity", "profit"})

Layouts == {LayoutPlain, LayoutPadded, LayoutRenamed, LayoutShort}

\* the field under the column label h
FieldOf(layout, h) == layout[CHOOSE k \in DOMAIN layout : layout[k][1] = h][2]

\* the frame pd.read_csv returns for a file with the header line layout and
\* the data rows
ReadCsv(layout, rows) ==
    Frame([k \in DOMAIN layout |-> layout[k][1]],
          [i \in DOMAIN rows |->
              [idx |-> i,
               c   |-> [h \in {layout[k][1] : k \in DOMAIN layout} |->
                           rows[i][FieldOf(layout, h)]]]])

\* sequences over S of length at most n
SeqUpTo(S, n) == UNION {[1 .. k -> S] : k \in 0 .. n}

FileNames == {"a.csv", "b.csv"}

-----------------------------------------------------------------------------
(* The job *)

NoError == <<>>

Raised(type) == <<[type |-> type, missing |-> <<>>, present |-> <<>>]>>

\* a variant that returns the object itself (df = df)
alias(h, r) == r

\* df.copy(): the reference of the new object
copy(h, r) == Len(h) + 1

\* the heap with frame f stored at reference r
Store(h, r, f) == IF r \in DOMAIN h THEN [h EXCEPT ![r] = f] ELSE Append(h, f)

\* glob.glob(pattern): the files of data/raw, in arbitrary order
Glob(d) == Perms(DOMAIN d)

\* lines 37-44: read every file, tag its rows, concatenate
Combined(d, files) ==
    Concat([k \in DOMAIN files |->
               Assign(d[files[k]], "source_file", LAMBDA c : files[k])])

\* a variant that never takes the branch
NeverNoFiles(files) == FALSE

\* if not files
NoFiles(files) == files = <<>>

TypeOK ==
    /\ pc \in {"start", "ensure_dirs", "load", "copy", "standardize", "transform",
               "save_csv", "save_parquet", "finish", "done", "aborted"}
    /\ dirs \in BOOLEAN
    /\ clock \in Years
    /\ start_time \in {0} \cup Years
    /\ run \in 1 .. MaxRuns
    /\ raw_df \in 0 .. Len(heap)
    /\ df \in 0 .. Len(heap)
    /\ Len(clean_df) <= 1 /\ Len(error) <= 1
    /\ written \subseteq {"csv", "parquet"}

InitRun ==
    /\ clock = 2025
    /\ dirs = FALSE
    /\ pc = "start"
    /\ start_time = 0
    /\ heap = <<>>
    /\ raw_df = 0
    /\ df = 0
    /\ clean_df = <<>>
    /\ out_csv = <<>>
    /\ out_parquet = <<>>
    /\ written = {}
    /\ error = NoError
    /\ warnings = {}
    /\ run = 1
    /\ prev_clean = <<>>

RECURSIVE TotalRows(_, _)
\* the number of data rows of the files S
TotalRows(rows, S) ==
    IF S = {} THEN 0
    ELSE LET f == CHOOSE f \in S : TRUE
         IN Len(rows[f]) + TotalRows(rows, S \ {f})

\* data/raw holds any files, all with the same header line, and at most
\* MaxRows rows
Init ==
    /\ \E names \in SUBSET FileNames, layout \in Layouts :
          \E rows \in [names -> SeqUpTo(FewRows, MaxRows)] :
             /\ TotalRows(rows, names) <= MaxRows
             /\ disk = [f \in names |-> ReadCsv(layout, rows[f])]
    /\ InitRun

\* data/raw holds one file, whose header line has every required column, in
\* labels that are not normalized, and one more column
InitRows ==
    /\ \E rows \in SeqUpTo(RichRows, MaxRows) :
          disk = [f \in {"a.csv"} |-> ReadCsv(LayoutPadded, rows)]
    /\ InitRun

\* main, lines 143-144; any time may have passed since the last run
Start ==
    /\ pc = "start"
    /\ \E now \in Years : now >= clock /\ clock' = now /\ start_time' = now
    /\ pc' = "ensure_dirs"
    /\ UNCHANGED <<disk, dirs, heap, raw_df, df, clean_df, out_csv, out_parquet,
                   written, error, warnings, run, prev_clean>>

\* ensure_dirs
EnsureDirs ==
    /\ pc = "ensure_dirs"
    /\ dirs' = TRUE
    /\ pc' = "load"
    /\ UNCHANGED <<disk, clock, start_time, heap, raw_df, df, clean_df, out_csv,
                   out_parquet, written, error, warnings, run, prev_clean>>

\* raw_df = load_raw_files()
LoadRawFiles ==
    /\ pc = "load"
    /\ \E files \in Glob(disk) :
          IF NoFiles(files)
          THEN /\ error' = Raised("FileNotFoundError")
               /\ pc' = "aborted"
               /\ UNCHANGED <<heap, raw_df>>
          ELSE /\ heap' = Append(heap, Combined(disk, files))
               /\ raw_df' = Len(heap) + 1
               /\ pc' = "copy"
               /\ UNCHANGED error
    /\ UNCHANGED <<disk, clock, dirs, start_time, df, clean_df, out_csv, out_parquet,
                   written, warnings, run, prev_clean>>

\* clean_and_transform, line 70: df = df.copy()
CopyInput ==
    /\ pc = "copy"
    /\ LET c == copy(heap, raw_df)
       IN /\ heap' = Store(heap, c, heap[raw_df])
          /\ df' = c
    /\ pc' = "standardize"
    /\ UNCHANGED <<disk, clock, dirs, start_time, raw_df, clean_df, out_csv, out_parquet,
                   written, error, warnings, run, prev_clean>>

\* clean_and_transform, line 73: df = standardize_columns(df)
StandardizeColumns ==
    /\ pc = "standardize"
    /\ LET cols    == NormalizedColumns(heap[df].columns)
           missing == Missing(cols)
       IN /\ heap' = [heap EXCEPT ![df] = SetColumns(heap[df], cols)]
          /\ IF missing # <<>>
             THEN /\ error' = <<SchemaError(missing, cols)>>
                  /\ pc' = "aborted"
             ELSE /\ pc' = "transform"
                  /\ UNCHANGED error
    /\ UNCHANGED <<disk, clock, dirs, start_time, raw_df, df, clean_df, out_csv,
                   out_parquet, written, warnings, run, prev_clean>>

\* clean_and_transform, lines 75-128; line 76 assigns the parsed dates to the
\* frame df refers to, the later stages build new frames.  The year does not
\* change within a run.
Transform ==
    /\ pc = "transform"
    /\ LET today == clock
       IN /\ heap' = [heap EXCEPT ![df] = ParseDates(heap[df], today)]
          /\ clean_df' = <<CleanRows(heap[df], today)>>
    /\ pc' = "save_csv"
    /\ UNCHANGED <<disk, clock, dirs, start_time, raw_df, df, out_csv, out_parquet,
                   written, error, warnings, run, prev_clean>>

\* to_csv / to_parquet (index=False): the columns and the cells, in row order
Content(f) == [columns |-> f.columns, rows |-> [i \in DOMAIN f.rows |-> f.rows[i].c]]

\* save_outputs, line 135: df.to_csv(OUTPUT_CSV); its exception is not caught
SaveCsv ==
    /\ pc = "save_csv"
    /\ \E ok \in BOOLEAN :
          IF ok
          THEN /\ out_csv' = <<Content(clean_df[1])>>
               /\ written' = written \cup {"csv"}
               /\ pc' = "save_parquet"
               /\ UNCHANGED error
          ELSE /\ error' = Raised("OSError")
               /\ pc' = "aborted"
               /\ UNCHANGED <<out_csv, written>>
    /\ UNCHANGED <<disk, clock, dirs, start_time, heap, raw_df, df, clean_df, out_parquet,
                   warnings, run, prev_clean>>

\* a variant without the try / except: the exception of to_parquet ends the run
SaveParquetUncaught ==
    /\ pc = "save_parquet"
    /\ \E ok \in BOOLEAN :
          IF ok
          THEN /\ out_parquet' = <<Content(clean_df[1])>>
               /\ written' = written \cup {"parquet"}
               /\ pc' = "finish"
               /\ UNCHANGED error
          ELSE /\ error' = Raised("OSError")
               /\ pc' = "aborted"
               /\ UNCHANGED <<out_parquet, written>>
    /\ UNCHANGED <<disk, clock, dirs, start_time, heap, raw_df, df, clean_df, out_csv,
                   warnings, run, prev_clean>>

\* save_outputs, lines 136-139: df.to_parquet(OUTPUT_PARQUET) in try / except
SaveParquet ==
    /\ pc = "save_parquet"
    /\ \E ok \in BOOLEAN :
          IF ok
          THEN /\ out_parquet' = <<Content(clean_df[1])>>
               /\ written' = written \cup {"parquet"}
               /\ UNCHANGED warnings
          ELSE /\ warnings' = warnings \cup {"Could not save Parquet"}
               /\ UNCHANGED <<out_parquet, written>>
    /\ pc' = "finish"
    /\ UNCHANGED <<disk, clock, dirs, start_time, heap, raw_df, df, clean_df, out_csv,
                   error, run, prev_clean>>

\* main, lines 151-153
Finish ==
    /\ pc = "finish"
    /\ pc' = "done"
    /\ UNCHANGED <<disk, clock, dirs, start_time, heap, raw_df, df, clean_df, out_csv,
                   out_parquet, written, error, warnings, run, prev_clean>>

\* the job is run again on the same raw files
Rerun ==
    /\ pc \in {"done", "aborted"}
    /\ run < MaxRuns
    /\ run' = run + 1
    /\ prev_clean' = IF pc = "done" THEN clean_df ELSE prev_clean
    /\ pc' = "start"
    /\ heap' = <<>>
    /\ raw_df' = 0
    /\ df' = 0
    /\ clean_df' = <<>>
    /\ written' = {}
    /\ error' = NoError
    /\ warnings' = {}
    /\ UNCHANGED <<disk, clock, dirs, start_time, out_csv, out_parquet>>

NextOnce ==
    \/ Start
    \/ EnsureDirs
    \/ LoadRawFiles
    \/ CopyInput
    \/ StandardizeColumns
    \/ Transform
    \/ SaveCsv
    \/ SaveParquet
    \/ Finish

Next == NextOnce \/ Rerun

\* runs of the job on any raw files
Spec == Init /\ [][Next]_vars

\* one run of the job on a file that passes the schema check
SpecRows == InitRows /\ [][NextOnce]_vars

-----------------------------------------------------------------------------
(* The input and the output of clean_and_transform, as the claims read them *)

Input == heap[raw_df]
Cleaned == clean_df # <<>>
Output == clean_df[1]

\* the cell of input row i under the column whose normalized label is col
InputCell(i, col) ==
    Input.rows[i].c[CHOOSE h \in Range(Input.columns) : lower(strip(h)) = col]

InputKey(i) == <<InputCell(i, "order_id"), InputCell(i, "product_id")>>

\* the index labels of the output rows, in output order
OutputIdx == [k \in DOMAIN Output.rows |-> Output.rows[k].idx]

\* input row i passes the row filters: its date parses, its four numeric
\* cells are numbers, its quantity is positive and its price not negative
Survives(i) ==
    /\ InputCell(i, "order_date") \in DOMAIN DateTable
    /\ \A col \in Range(numeric_cols) : InputCell(i, col) \in DOMAIN NumTable
    /\ NumTable[InputCell(i, "quantity")][1] > 0
    /\ NumTable[InputCell(i, "unit_price")][1] >= 0

\* input rows i and j have the same key and differ in every other field
DuplicatePair(i, j) ==
    /\ InputKey(i) = InputKey(j)
    /\ \A col \in Range(required_cols) \ {"order_id", "product_id"} :
          InputCell(i, col) # InputCell(j, col)

\* no input row before i has the key of row i
FirstOfKey(i) == \A k \in 1 .. (i - 1) : InputKey(k) # InputKey(i)

-----------------------------------------------------------------------------
(* Claims *)

\* C1: the dataset clean_and_transform returns for an input that passes the
\* schema check has no two rows with the same (order_id, product_id) pair.
C1_KeysDistinct ==
    Cleaned =>
        \A i, j \in DOMAIN Output.rows :
            i # j => DupKey(Output.rows[i].c) # DupKey(Output.rows[j].c)

\* two surviving input rows share a key and one output row is left
C1_Witness ==
    /\ Cleaned
    /\ \E i, j \in DOMAIN Input.rows :
          i < j /\ InputKey(i) = InputKey(j) /\ Survives(i) /\ Survives(j)
    /\ Len(Output.rows) = 1

C3_RangesHold ==
    Cleaned =>
        \A k \in DOMAIN Output.rows :
            /\ Output.rows[k].c.quantity[2] > 0 /\ Output.rows[k].c.quantity[1] > 0
            /\ Output.rows[k].c.unit_price[2] > 0 /\ Output.rows[k].c.unit_price[1] >= 0

\* a row with quantity -5 and a valid row were cleaned: the valid one is left
C3_Witness ==
    /\ Cleaned
    /\ Len(Input.rows) = 2
    /\ \E i \in DOMAIN Input.rows : InputCell(i, "quantity") = "-5"
    /\ Len(Output.rows) = 1

\* quantity*unit_price - quantity*unit_price*discount of a row
NetSales(c) ==
    Sub(Mul(c.quantity, c.unit_price), Mul(Mul(c.quantity, c.unit_price), c.discount))

\* C4: in every output row margin_pct is null exactly when net_sales, which is
\* quantity*unit_price - quantity*unit_price*discount, is zero; otherwise it is
\* the finite number whose product with net_sales is profit, also when
\* net_sales is negative.  No row holds the result of a division by zero.
C4_MarginGuarded ==
    Cleaned =>
        \A k \in DOMAIN Output.rows :
            LET c == Output.rows[k].c
            IN /\ c.net_sales = NetSales(c)
               /\ IsNull(c.margin_pct) <=> c.net_sales[1] = 0
               /\ c.net_sales[1] # 0 =>
                     /\ c.margin_pct[2] > 0
                     /\ c.margin_pct[1] * c.net_sales[1] * c.profit[2]
                           = c.profit[1] * c.margin_pct[2] * c.net_sales[2]

\* a row with zero net sales and a profit, and a row with negative net sales,
\* are in the output
C4_Witness ==
    /\ Cleaned
    /\ \E k \in DOMAIN Output.rows :
          /\ Output.rows[k].c.net_sales = Rat(0, 1)
          /\ Output.rows[k].c.profit # Rat(0, 1)
          /\ IsNull(Output.rows[k].c.margin_pct)
    /\ \E k \in DOMAIN Output.rows :
          /\ Output.rows[k].c.net_sales[1] < 0
          /\ Output.rows[k].c.margin_pct = Rat(-4, 3)

\* the input rows the output is claimed to hold: the surviving rows that no
\* earlier surviving row shares its key with
ExpectedIdx ==
    {i \in DOMAIN Input.rows :
        /\ Survives(i)
        /\ \A j \in 1 .. (i - 1) : Survives(j) => InputKey(j) # InputKey(i)}

\* C10: clean_and_transform raises no error on row-level data problems, and
\* its output rows are, in input order, the input rows that pass the row
\* filters (a non-numeric discount or profit alone drops a row) and are the
\* first such row of their (order_id, product_id); no other step removes, adds
\* or reorders rows.
C10_OutputRows ==
    /\ pc \in {"transform", "save_csv", "save_parquet", "finish", "done"} => error = NoError
    /\ pc = "aborted" /\ df # 0 => error = Raised("OSError")
    /\ Cleaned =>
          /\ Range(OutputIdx) = ExpectedIdx
          /\ \A k \in 1 .. (Len(OutputIdx) - 1) : OutputIdx[k] < OutputIdx[k + 1]
          /\ \A k \in DOMAIN OutputIdx :
                DupKey(Output.rows[k].c) = InputKey(OutputIdx[k])

\* a row whose only fault is a non-numeric discount was dropped, and the row
\* after it is the output
C10_Witness ==
    /\ Cleaned
    /\ Len(Input.rows) = 2
    /\ InputCell(1, "discount") = "x"
    /\ InputCell(1, "order_date") \in DOMAIN DateTable
    /\ \A col \in {"quantity", "unit_price", "profit"} : InputCell(1, col) \in DOMAIN NumTable
    /\ NumTable[InputCell(1, "quantity")][1] > 0
    /\ NumTable[InputCell(1, "unit_price")][1] >= 0
    /\ OutputIdx = <<2>>

\* the required columns no label of the loaded dataset normalizes to
Absent ==
    {c \in Range(required_cols) :
        \A h \in Range(Input.columns) : lower(strip(h)) # c}

\* the run was ended by the schema check
SchemaFailed == error # NoError /\ error[1].type = "ValueError"

\* standardize_columns has been called and has returned or raised
Standardized == df # 0 /\ pc # "standardize"

\* C5: the schema check fails exactly when a required column is absent after
\* the labels are lowercased and trimmed; its error lists every absent
\* required column, once, and no other, together with the columns present.
\* With order_date renamed to orderdate the list is ["order_date"].
C5_MissingListExact ==
    Standardized =>
        /\ SchemaFailed <=> Absent # {}
        /\ SchemaFailed =>
              /\ Range(error[1].missing) = Absent
              /\ Len(error[1].missing) = Cardinality(Absent)
              /\ error[1].present =
                    [k \in DOMAIN Input.columns |-> lower(strip(Input.columns[k]))]
        /\ "OrderDate" \in Range(Input.columns) => error[1].missing = <<"order_date">>

\* the schema check failed on a dataset that lacks several required columns
C5_Witness ==
    /\ Standardized
    /\ SchemaFailed
    /\ Cardinality(Absent) = 3

\* C6: a run that finds no input file or fails the schema check writes no
\* output file; save_outputs is reached only with the loaded and the cleaned
\* dataset and no error; with no input file the run ends at the loader and no
\* step of the transformation is executed.
C6_NoOutputOnFatalError ==
    /\ (error # NoError /\ error[1].type \in {"FileNotFoundError", "ValueError"}) =>
          /\ written = {}
          /\ pc = "aborted"
          /\ clean_df = <<>>
    /\ (pc \in {"save_csv", "save_parquet"} \/ written # {}) =>
          /\ raw_df # 0
          /\ Cleaned
          /\ error = NoError \/ (error = Raised("OSError") /\ written = {})
    /\ (DOMAIN disk = {} /\ pc \notin {"start", "ensure_dirs", "load"}) =>
          /\ pc = "aborted"
          /\ error = Raised("FileNotFoundError")
          /\ heap = <<>> /\ df = 0 /\ clean_df = <<>>

\* a second run failed the schema check as the first did, and there is still
\* no output file
C6_Witness ==
    /\ run = 2
    /\ pc = "aborted"
    /\ SchemaFailed
    /\ out_csv = <<>> /\ out_parquet = <<>>

ParquetFailed == "Could not save Parquet" \in warnings

\* C7: a failure to write the Parquet file leaves the CSV file of the run in
\* place, is reported as a warning only, and the run goes on to its end; a run
\* that a write failure ends has failed to write the CSV file.
C7_ParquetFailureNotFatal ==
    /\ ParquetFailed =>
          /\ "csv" \in written
          /\ out_csv = <<Content(Output)>>
          /\ error = NoError
          /\ pc \in {"finish", "done"}
    /\ (pc = "aborted" /\ Cleaned) =>
          /\ error = Raised("OSError")
          /\ written = {}
          /\ ~ParquetFailed

\* a run ended normally with the CSV file written and the Parquet file not
C7_Witness ==
    /\ pc = "done"
    /\ ParquetFailed
    /\ written = {"csv"}
    /\ out_parquet = <<>>

\* C8, as claimed: the call of standardize_columns leaves the column labels
\* of the dataset object it is passed as they were.
C8_ArgumentUnchanged ==
    [][pc = "standardize" => heap'[df].columns = heap[df].columns]_vars

\* C8, amended: standardize_columns relabels the object it is passed in place,
\* and that object is the copy clean_and_transform made; the dataset main
\* passed to clean_and_transform is the same after every step of that call,
\* whether the schema check succeeds or fails.
C8_CallerDatasetUnchanged ==
    [][(pc \in {"copy", "standardize", "transform"} => heap'[raw_df] = heap[raw_df])
       /\ (pc = "standardize" =>
              heap'[df].columns = NormalizedColumns(heap[df].columns))]_vars

\* the schema check passed on labels that were not normalized: the copy has
\* the normalized labels and the caller's dataset its own
C8_Witness ==
    /\ pc = "transform"
    /\ heap[df].columns # heap[raw_df].columns
    /\ heap[df].columns = NormalizedColumns(heap[raw_df].columns)

\* C9: two runs of the job on the same raw files that both end normally
\* produce the same cleaned dataset: same rows, same values, same order.
C9_RerunSameOutput ==
    (pc = "done" /\ prev_clean # <<>>) => clean_df = prev_clean

====
